---- MODULE Spec2Model ----
(***************************************************************************)
(* A model of homeassistant/components/command_line/switch.py: the         *)
(* CommandSwitch entity, its poll lock, its periodic tick and its          *)
(* turn_on / turn_off handlers, as coroutines on one asyncio event loop.   *)
(* One action is one run of a coroutine between two suspension points.     *)
(***************************************************************************)
EXTENDS Integers, Sequences, FiniteSets, TLC

\* ------------------------------------------------------------------ bounds

\* Coroutines (ticks and turn_on / turn_off calls) that may be alive at once.
MaxTasks == 2

\* Exit codes of an external command range over 0..MaxExitCode.
MaxExitCode == 1

Tasks == 1..MaxTasks

ExitCodes == 0..MaxExitCode

\* ---------------------------------------------------------- Python values

\* Python's None, str and bool, tagged so that they can be compared.
None == [t |-> "none"]

PyStr(s) == [t |-> "str", v |-> s]

PyBool(b) == [t |-> "bool", v |-> b]

\* Python truthiness of None, a str or a bool.
Truthy(x) ==
    CASE x.t = "none" -> FALSE
      [] x.t = "str" -> x.v # <<>>
      [] x.t = "bool" -> x.v

\* Python's str(): str(None) is "None", str(True) is "True", str(False) is
\* "False", and a str is itself. Strings are sequences of characters.
Str(x) ==
    CASE x.t = "none" -> <<"N", "o", "n", "e">>
      [] x.t = "bool" -> IF x.v THEN <<"T", "r", "u", "e">>
                                ELSE <<"F", "a", "l", "s", "e">>
      [] x.t = "str" -> x.v

LowerChar(c) ==
    CASE c = "A" -> "a" [] c = "E" -> "e" [] c = "F" -> "f" [] c = "L" -> "l"
      [] c = "N" -> "n" [] c = "O" -> "o" [] c = "R" -> "r" [] c = "S" -> "s"
      [] c = "T" -> "t" [] c = "U" -> "u"
      [] OTHER -> c

\* lower() that leaves the string as it is.
Lower_missing(s) == s

\* str.lower()
Lower(s) == [i \in 1..Len(s) |-> LowerChar(s[i])]

\* `a or b` with its operands taken the other way round.
Or_swapped(a, b) == IF Truthy(b) THEN b ELSE a

\* Python's `a or b` on values.
Or(a, b) == IF Truthy(a) THEN a ELSE b

\* ------------------------------------------------------ external commands

\* What an external command may print (already stripped).
Outputs ==
    { <<>>,
      <<"t", "r", "u", "e">>,
      <<"T", "R", "U", "E">>,
      <<"f", "a", "l", "s", "e">>,
      <<"o", "n">> }

\* The outcome of one external process: its exit code, what it printed, and
\* whether it ran past the timeout (then it is killed and counts as failed).
CommandResults ==
    { r \in [exitCode : ExitCodes, stdout : Outputs, timedOut : BOOLEAN] :
        r.timedOut => (r.exitCode # 0 /\ r.stdout = <<>>) }

\* No exit code yet.
NoCode == 0 - 1

\* No outcome yet.
NoResult == [exitCode |-> NoCode, stdout |-> <<>>, timedOut |-> FALSE]

\* utils.call_shell_with_timeout: the exit code; a timeout is a failure.
call_shell_with_timeout(r) == r.exitCode

\* utils.check_output_or_log: the stripped output, absent when the command
\* failed, timed out or printed nothing.
check_output_or_log(r) ==
    IF r.exitCode # 0 \/ r.timedOut \/ r.stdout = <<>> THEN None
    ELSE PyStr(r.stdout)

\* ------------------------------------------------------------- templates

\* The value templates a device may be configured with, as pure functions
\* of the payload: "echo" renders the payload, "is_on" renders whether the
\* payload is "on", "empty" renders nothing, "error" fails to render.
Templates == {"echo", "is_on", "empty", "error"}

\* Template.async_render_with_possible_json_value(payload, None): the
\* rendered text, or the error value None when rendering fails.
async_render_with_possible_json_value(tpl, payload) ==
    CASE tpl = "echo" -> PyStr(payload)
      [] tpl = "is_on" -> PyStr(Str(PyBool(payload = <<"o", "n">>)))
      [] tpl = "empty" -> PyStr(<<>>)
      [] tpl = "error" -> None

\* ----------------------------------------------------------------- state

VARIABLES
    command_state,    \* self._command_state: None or a str
    value_template,   \* self._value_template: "None" or one of Templates
    attr_is_on,       \* self._attr_is_on: "True", "False" or "None"
    process_updates,  \* self._process_updates: "None", or a Lock "free"/"held"
    added,            \* async_added_to_hass has run
    tick_registered,  \* async_track_time_interval was registered
    kind,             \* per coroutine: "none", "tick", "on", "off"
    pc,               \* per coroutine: where it is suspended
    result,           \* per coroutine: the state command's outcome
    exit_code,        \* per coroutine: what the action command returned
    success,          \* per coroutine: _switch's local `success`
    attempts,         \* per coroutine: calls of _update_entity_state
    warned,           \* per coroutine: LOGGER.warning calls
    queries,          \* per coroutine: state commands submitted
    scheduled,        \* per coroutine: async_schedule_update_ha_state calls
    committed         \* per coroutine: async_update_ha_state calls completed

config == <<command_state, value_template>>

entity == <<attr_is_on, process_updates, added, tick_registered>>

locals == <<kind, pc, result, exit_code, success, attempts, warned, queries, scheduled,
            committed>>

vars == <<config, entity, locals>>

CommandStates == {None, PyStr(<<>>), PyStr(<<"c", "m", "d">>)}

\* CommandSwitch.__init__
Init ==
    /\ command_state \in CommandStates
    /\ value_template \in {"None"} \cup Templates
    /\ attr_is_on = "False"
    /\ process_updates = "None"
    /\ added = FALSE
    /\ tick_registered = FALSE
    /\ kind = [t \in Tasks |-> "none"]
    /\ pc = [t \in Tasks |-> "idle"]
    /\ result = [t \in Tasks |-> NoResult]
    /\ exit_code = [t \in Tasks |-> NoCode]
    /\ success = [t \in Tasks |-> FALSE]
    /\ attempts = [t \in Tasks |-> 0]
    /\ warned = [t \in Tasks |-> 0]
    /\ queries = [t \in Tasks |-> 0]
    /\ scheduled = [t \in Tasks |-> 0]
    /\ committed = [t \in Tasks |-> 0]

\* ------------------------------------------------------------ poll lock

\* locked() answering "not held" whatever the lock's state.
locked_never(lock) == FALSE

\* asyncio.Lock.locked()
locked(lock) == lock = "held"

\* acquire() that forgets to mark the lock held.
acquire_forgets(lock) == lock

\* asyncio.Lock.acquire() on a lock that is not held: no suspension.
acquire(lock) == "held"

\* release() that leaves the lock as it is.
release_forgets(lock) == lock

\* asyncio.Lock.release(), run by `async with` on every exit path.
release(lock) == "free"

\* _update_entity_state, line 215-216: the lock is created on first use.
lazy_lock(lock) == IF lock = "None" THEN "free" ELSE lock

\* ------------------------------------------------------- CommandSwitch

\* assumed_state
assumed_state == command_state = None

\* _switch taking every exit code for success.
switch_always(code) == code >= 0

\* _switch: success is `call_shell_with_timeout(...) == 0`.
switch(code) == code = 0

\* _query_state_value
query_state_value(r) == check_output_or_log(r)

\* _query_state_code
query_state_code(r) == PyBool(call_shell_with_timeout(r) = 0)

\* _query_state reading the output whether or not a template is set.
query_state_by_output(r) ==
    IF Truthy(command_state) THEN query_state_value(r) ELSE None

\* _query_state
query_state(r) ==
    IF Truthy(command_state)
    THEN IF value_template # "None" THEN query_state_value(r)
         ELSE query_state_code(r)
    ELSE None

\* _async_update, line 231: payload = str(<result of _query_state>)
payload_of(r) == Str(query_state(r))

\* _async_update, line 232-236: value = None, or the rendered template.
value_of(r) ==
    IF value_template # "None"
    THEN async_render_with_possible_json_value(value_template, payload_of(r))
    ELSE None

\* _async_update, line 239: the string that decides the state.
chosen(payload, value) == Str(Or(value, PyStr(payload)))

\* A refresh that reads "true" as a request to flip the state it finds.
interpret_toggling(payload, value) ==
    IF Lower(chosen(payload, value)) = <<"t", "r", "u", "e">>
    THEN IF attr_is_on = "True" THEN "False" ELSE "True"
    ELSE attr_is_on

\* _async_update, line 237-239: the new _attr_is_on.
interpret(payload, value) ==
    IF Truthy(PyStr(payload)) \/ Truthy(value)
    THEN IF Lower(chosen(payload, value)) = <<"t", "r", "u", "e">>
         THEN "True" ELSE "False"
    ELSE "None"

\* turn_off writing what turn_on writes.
target_on(k) == "True"

\* async_turn_on / async_turn_off: the value written optimistically.
target(k) == IF k = "on" THEN "True" ELSE "False"

\* The optimistic condition without `and not self._command_state`.
optimistic_unguarded(ok) == ok

\* async_turn_on / async_turn_off, line 245 / 252: the optimistic condition.
optimistic(ok) == ok /\ ~Truthy(command_state)

\* _async_update without its `if self._command_state:` guard.
update_entity_state_unguarded(lock) ==
    IF locked(lazy_lock(lock))
    THEN [lock |-> lazy_lock(lock), outcome |-> "dropped"]
    ELSE [lock |-> acquire(lazy_lock(lock)), outcome |-> "query"]

\* _update_entity_state followed by _async_update up to its first
\* suspension: the lock afterwards and what became of the attempt.
update_entity_state(lock) ==
    IF locked(lazy_lock(lock))
    THEN [lock |-> lazy_lock(lock), outcome |-> "dropped"]
    ELSE IF Truthy(command_state)
         THEN [lock |-> acquire(lazy_lock(lock)), outcome |-> "query"]
         ELSE [lock |-> release(acquire(lazy_lock(lock))), outcome |-> "noop"]

\* ---------------------------------------------------------------- actions

Free(t) == pc[t] \in {"idle", "done", "raised"}

InBody(t) == pc[t] \in {"query", "notify"}

\* A new coroutine takes the first free slot t: its locals start afresh.
Start(t, k, p) ==
    /\ Free(t)
    /\ \A u \in Tasks : u < t => ~Free(u)
    /\ kind' = [kind EXCEPT ![t] = k]
    /\ pc' = [pc EXCEPT ![t] = p]
    /\ result' = [result EXCEPT ![t] = NoResult]
    /\ exit_code' = [exit_code EXCEPT ![t] = NoCode]
    /\ success' = [success EXCEPT ![t] = FALSE]
    /\ attempts' = [attempts EXCEPT ![t] = 0]
    /\ warned' = [warned EXCEPT ![t] = 0]
    /\ queries' = [queries EXCEPT ![t] = 0]
    /\ scheduled' = [scheduled EXCEPT ![t] = 0]
    /\ committed' = [committed EXCEPT ![t] = 0]

\* Coroutine t runs _update_entity_state (and _async_update up to the
\* executor job): dropped with a warning, or the lock taken and the state
\* command submitted, or nothing to do.
UpdateEntityState(t) ==
    LET u == update_entity_state(process_updates) IN
    /\ process_updates' = u.lock
    /\ attempts' = [attempts EXCEPT ![t] = @ + 1]
    /\ warned' = [warned EXCEPT ![t] = IF u.outcome = "dropped" THEN @ + 1 ELSE @]
    /\ queries' = [queries EXCEPT ![t] = IF u.outcome = "query" THEN @ + 1 ELSE @]
    /\ pc' = [pc EXCEPT ![t] = IF u.outcome = "query" THEN "query" ELSE "done"]

\* async_added_to_hass: the periodic tick is registered when there is a
\* state command.
AddedToHass ==
    /\ ~added
    /\ added' = TRUE
    /\ tick_registered' = Truthy(command_state)
    /\ UNCHANGED <<config, attr_is_on, process_updates, locals>>

\* async_track_time_interval fires: a task running _update_entity_state is
\* queued on the event loop.
Tick(t) ==
    /\ tick_registered
    /\ Start(t, "tick", "queued")
    /\ UNCHANGED <<config, entity>>

\* The queued tick runs _update_entity_state(now).
RunTick(t) ==
    /\ pc[t] = "queued"
    /\ UpdateEntityState(t)
    /\ UNCHANGED <<config, attr_is_on, added, tick_registered, kind, result,
                   exit_code, success, scheduled, committed>>

\* async_turn_on is called: _switch submits the on command to the executor.
TurnOn(t) ==
    /\ added
    /\ Start(t, "on", "switch")
    /\ UNCHANGED <<config, entity>>

\* async_turn_off is called: _switch submits the off command.
TurnOff(t) ==
    /\ added
    /\ Start(t, "off", "switch")
    /\ UNCHANGED <<config, entity>>

\* _switch waiting for the poll lock to be free before its command is
\* allowed to return.
SwitchReturn_gated(t) ==
    /\ pc[t] = "switch"
    /\ ~locked(process_updates)
    /\ \E code \in {call_shell_with_timeout(r) : r \in CommandResults} :
         /\ exit_code' = [exit_code EXCEPT ![t] = code]
         /\ success' = [success EXCEPT ![t] = switch(code)]
         /\ IF optimistic(switch(code))
            THEN /\ attr_is_on' = target(kind[t])
                 /\ scheduled' = [scheduled EXCEPT ![t] = @ + 1]
            ELSE UNCHANGED <<attr_is_on, scheduled>>
    /\ UpdateEntityState(t)
    /\ UNCHANGED <<config, added, tick_registered, kind, result, committed>>

\* The action command returns an exit code: _switch returns, the optimistic write is
\* made or skipped, and _update_entity_state(None) runs.
SwitchReturn(t) ==
    /\ pc[t] = "switch"
    /\ \E code \in {call_shell_with_timeout(r) : r \in CommandResults} :
         /\ exit_code' = [exit_code EXCEPT ![t] = code]
         /\ success' = [success EXCEPT ![t] = switch(code)]
         /\ IF optimistic(switch(code))
            THEN /\ attr_is_on' = target(kind[t])
                 /\ scheduled' = [scheduled EXCEPT ![t] = @ + 1]
            ELSE UNCHANGED <<attr_is_on, scheduled>>
    /\ UpdateEntityState(t)
    /\ UNCHANGED <<config, added, tick_registered, kind, result, committed>>

\* The exception of the action command caught as if _switch had returned
\* False: _update_entity_state(None) still runs.
SwitchFault_swallowed(t) ==
    /\ pc[t] = "switch"
    /\ UpdateEntityState(t)
    /\ UNCHANGED <<config, attr_is_on, added, tick_registered, kind, result,
                   exit_code, success, scheduled, committed>>

\* The executor job of the action command raises (the shell cannot be
\* spawned): the exception leaves async_turn_on / async_turn_off.
SwitchFault(t) ==
    /\ pc[t] = "switch"
    /\ pc' = [pc EXCEPT ![t] = "raised"]
    /\ UNCHANGED <<config, entity, kind, result, exit_code, success, attempts, warned,
                   queries, scheduled, committed>>

\* _async_update writing to the host only when the state has changed.
QueryReturn_quiet(t) ==
    /\ pc[t] = "query"
    /\ \E r \in CommandResults :
         LET new == interpret(payload_of(r), value_of(r))
             same == new = attr_is_on
         IN /\ attr_is_on' = new
            /\ result' = [result EXCEPT ![t] = IF same THEN NoResult ELSE r]
            /\ pc' = [pc EXCEPT ![t] = IF same THEN "done" ELSE "notify"]
            /\ process_updates' = IF same THEN release(process_updates)
                                  ELSE process_updates
    /\ UNCHANGED <<config, added, tick_registered, kind,
                   exit_code, success, attempts, warned, queries, scheduled, committed>>

\* The state command returns r: _async_update computes payload and value,
\* writes _attr_is_on and awaits async_update_ha_state(True).
QueryReturn(t) ==
    /\ pc[t] = "query"
    /\ \E r \in CommandResults :
         /\ result' = [result EXCEPT ![t] = r]
         /\ attr_is_on' = interpret(payload_of(r), value_of(r))
    /\ pc' = [pc EXCEPT ![t] = "notify"]
    /\ UNCHANGED <<config, process_updates, added, tick_registered, kind,
                   exit_code, success, attempts, warned, queries, scheduled, committed>>

\* The executor job of the state command raises: `async with` releases the
\* lock and the exception leaves _update_entity_state.
QueryFault(t) ==
    /\ pc[t] = "query"
    /\ process_updates' = release(process_updates)
    /\ pc' = [pc EXCEPT ![t] = "raised"]
    /\ UNCHANGED <<config, attr_is_on, added, tick_registered, kind, result,
                   exit_code, success, attempts, warned, queries, scheduled, committed>>

\* async_update_ha_state(True) completes: the host has the new state,
\* `async with` releases the lock and the handler returns.
NotifyDone(t) ==
    /\ pc[t] = "notify"
    /\ committed' = [committed EXCEPT ![t] = @ + 1]
    /\ process_updates' = release(process_updates)
    /\ pc' = [pc EXCEPT ![t] = "done"]
    /\ result' = [result EXCEPT ![t] = NoResult]
    /\ UNCHANGED <<config, attr_is_on, added, tick_registered, kind, exit_code,
                   success, attempts, warned, queries, scheduled>>

Next ==
    \/ AddedToHass
    \/ \E t \in Tasks : Tick(t)
    \/ \E t \in Tasks : RunTick(t)
    \/ \E t \in Tasks : TurnOn(t)
    \/ \E t \in Tasks : TurnOff(t)
    \/ \E t \in Tasks : SwitchReturn(t)
    \/ \E t \in Tasks : SwitchFault(t)
    \/ \E t \in Tasks : QueryReturn(t)
    \/ \E t \in Tasks : QueryFault(t)
    \/ \E t \in Tasks : NotifyDone(t)

Spec == Init /\ [][Next]_vars

TypeOK ==
    /\ command_state \in CommandStates
    /\ value_template \in {"None"} \cup Templates
    /\ attr_is_on \in {"True", "False", "None"}
    /\ process_updates \in {"None", "free", "held"}
    /\ kind \in [Tasks -> {"none", "tick", "on", "off"}]
    /\ pc \in [Tasks -> {"idle", "queued", "switch", "query", "notify",
                         "done", "raised"}]

\* ----------------------------------------------------------- properties

HasStateCommand == Truthy(command_state)

IsAction(t) == kind[t] \in {"on", "off"}

LockHeld == process_updates = "held"

\* Coroutine t makes a refresh attempt in this step: it enters
\* _update_entity_state.
AttemptStep(t) ==
    /\ pc[t] \in {"queued", "switch"}
    /\ attempts'[t] = attempts[t] + 1

\* The action command of coroutine t returns an exit code in this step.
CommandReturned(t) ==
    /\ pc[t] = "switch"
    /\ exit_code'[t] \in ExitCodes

\* C1: at most one coroutine is inside the refresh body (_async_update,
\* from the submission of the state command to the release of the lock) at
\* any time, under every interleaving of ticks and turn_on / turn_off.
C1_OneRefreshBody == Cardinality({t \in Tasks : InBody(t)}) <= 1

\* A tick's state command is in flight and the refresh attempt of a
\* turn_on / turn_off that arrived meanwhile did not enter the body.
C1_Witness ==
    \E t, u \in Tasks :
        /\ kind[t] = "tick" /\ pc[t] = "query"
        /\ IsAction(u) /\ pc[u] = "done" /\ attempts[u] = 1 /\ queries[u] = 0

\* C2: a refresh attempt made while the poll lock is held is dropped: it
\* submits no state command, leaves _attr_is_on and the lock alone, sends
\* no notification, logs exactly one warning and ends there (it is neither
\* queued nor retried); an attempt made while the lock is free logs no
\* warning.
C2_DroppedWhenHeld ==
    /\ [][\A t \in Tasks :
            AttemptStep(t) =>
                IF LockHeld
                THEN /\ warned'[t] = warned[t] + 1
                     /\ queries'[t] = queries[t]
                     /\ attr_is_on' = attr_is_on
                     /\ scheduled' = scheduled
                     /\ committed' = committed
                     /\ process_updates' = process_updates
                     /\ pc'[t] = "done"
                ELSE warned'[t] = warned[t]]_vars
    /\ [](\A t \in Tasks :
            warned[t] # 0 =>
                /\ warned[t] = 1
                /\ pc[t] = "done"
                /\ queries[t] = 0
                /\ committed[t] = 0)

\* A tick was dropped with one warning while another coroutine's state
\* command is still in flight.
C2_Witness ==
    \E t, u \in Tasks :
        /\ kind[t] = "tick" /\ pc[t] = "done" /\ warned[t] = 1
        /\ pc[u] = "query"

\* The coroutine t inside the refresh body is resumed: its executor job
\* ends, by a result or by an exception, or the host's write completes.
Resumed(t) == QueryFault(t) \/ QueryReturn(t) \/ NotifyDone(t)

\* C3: the poll lock is held exactly while a coroutine is inside the
\* refresh body, and leaving the body, normally or by an execution fault of
\* the state command, frees it, so that an attempt made afterwards is
\* executed and not dropped. The holder waits for nothing but its own
\* command and the host's write (its resumption is always enabled) and only
\* moves forward, from the command to the write to the end: once every
\* external command ends, the lock is not held forever.
C3_LockReleased ==
    /\ [](LockHeld <=> \E t \in Tasks : InBody(t))
    /\ [](\A t \in Tasks : InBody(t) => ENABLED Resumed(t))
    /\ [][\A t \in Tasks :
            /\ pc[t] = "query" => pc'[t] \in {"query", "notify", "raised"}
            /\ pc[t] = "notify" => pc'[t] \in {"notify", "done"}
            /\ (InBody(t) /\ ~InBody(t)') => ~LockHeld']_vars
    /\ [][\A t \in Tasks :
            (AttemptStep(t) /\ ~\E u \in Tasks : InBody(u)) =>
                /\ warned'[t] = warned[t]
                /\ HasStateCommand => queries'[t] = queries[t] + 1]_vars

\* A state command raised an execution fault, and a later attempt got the
\* lock and is executing.
C3_Witness ==
    \E t, u \in Tasks :
        /\ pc[t] = "raised" /\ queries[t] = 1
        /\ InBody(u) /\ LockHeld

\* C4: with no state command (command_state is None) no tick is ever
\* registered and a refresh runs no command, writes nothing and notifies
\* nobody; _attr_is_on changes only by a successful turn_on / turn_off,
\* and a successful turn_on with its refresh leaves it True.
C4_AssumedRefreshNoOp ==
    /\ [](command_state = None =>
            /\ ~tick_registered
            /\ \A t \in Tasks :
                /\ pc[t] \notin {"queued", "query", "notify"}
                /\ queries[t] = 0
                /\ committed[t] = 0)
    /\ [][command_state = None =>
            /\ attr_is_on' # attr_is_on =>
                 \E t \in Tasks :
                    /\ CommandReturned(t)
                    /\ exit_code'[t] = 0
                    /\ attr_is_on' = target(kind[t])
            /\ \A t \in Tasks :
                 (CommandReturned(t) /\ kind[t] = "on" /\ exit_code'[t] = 0) =>
                    /\ attempts'[t] = 1
                    /\ pc'[t] = "done"
                    /\ attr_is_on' = "True"]_vars

\* Without a state command a successful turn_on, refresh included, has
\* returned and the switch is on.
C4_Witness ==
    /\ command_state = None
    /\ attr_is_on = "True"
    /\ \E t \in Tasks :
        /\ kind[t] = "on" /\ pc[t] = "done" /\ exit_code[t] = 0
        /\ attempts[t] = 1

\* C5: when the action command of turn_on / turn_off returns, the handler
\* writes its target (True for on, False for off) and schedules exactly
\* one host update if and only if the exit code is 0 and there is no
\* (non-empty) state command; otherwise it writes nothing: with a state
\* command turn_on / turn_off never write _attr_is_on themselves.
C5_OptimisticFlip ==
    [][\A t \in Tasks :
        CommandReturned(t) =>
            IF exit_code'[t] = 0 /\ ~HasStateCommand
            THEN /\ attr_is_on' = target(kind[t])
                 /\ scheduled'[t] = 1
                 /\ committed'[t] = 0
            ELSE /\ attr_is_on' = attr_is_on
                 /\ scheduled'[t] = 0]_vars

\* A turn_off flipped the switch from True to False with one notification.
C5_Witness ==
    /\ ~HasStateCommand
    /\ attr_is_on = "False"
    /\ \E t, u \in Tasks :
        /\ kind[t] = "off" /\ pc[t] = "done" /\ exit_code[t] = 0
        /\ scheduled[t] = 1
        /\ kind[u] = "on" /\ pc[u] = "done" /\ exit_code[u] = 0

\* C6: when the action command fails (non-zero exit code, a timeout
\* included), the handler writes nothing and schedules no host update, does
\* not raise, and still makes its refresh attempt.
C6_FailedAction ==
    [][\A t \in Tasks :
        (CommandReturned(t) /\ exit_code'[t] # 0) =>
            /\ ~success'[t]
            /\ attr_is_on' = attr_is_on
            /\ scheduled'[t] = 0
            /\ attempts'[t] = 1
            /\ pc'[t] \in {"query", "done"}]_vars

\* A turn_off whose command failed has returned, its refresh attempt made,
\* and the switch, on before, is still on.
C6_Witness ==
    /\ attr_is_on = "True"
    /\ \E t \in Tasks :
        /\ kind[t] = "off" /\ pc[t] = "done" /\ exit_code[t] \in ExitCodes \ {0}
        /\ attempts[t] = 1 /\ scheduled[t] = 0

\* The action handler of coroutine t returns in this step.
ActionReturns(t) ==
    /\ IsAction(t)
    /\ pc[t] \in {"switch", "notify"}
    /\ pc'[t] = "done"

\* What _async_update makes of the outcome r of the state command.
StateFrom(r) == interpret(payload_of(r), value_of(r))

\* C7, as stated: with a state command, whenever turn_on / turn_off
\* returns, a state command submitted after its action command has been
\* executed and _attr_is_on is what that query gave.
C7_ActionAlwaysRefreshes ==
    [][\A t \in Tasks :
        (ActionReturns(t) /\ HasStateCommand) =>
            /\ queries'[t] = 1
            /\ committed'[t] = 1
            /\ attr_is_on' = StateFrom(result[t])]_vars

\* C7, amended: with a state command, turn_on / turn_off makes exactly one
\* refresh attempt when its action command has returned. If the poll lock
\* is free then, its state command is submitted (after the action command)
\* and, when the handler returns, _attr_is_on is what that query gave. If
\* the lock is held then, the attempt is dropped with one warning: the
\* handler returns at once, having run no state command and written nothing.
C7_ActionRefreshUnlessHeld ==
    /\ [][\A t \in Tasks :
            (CommandReturned(t) /\ HasStateCommand) =>
                /\ attempts'[t] = 1
                /\ IF LockHeld
                   THEN /\ pc'[t] = "done"
                        /\ warned'[t] = 1
                        /\ queries'[t] = 0
                        /\ attr_is_on' = attr_is_on
                   ELSE /\ pc'[t] = "query"
                        /\ warned'[t] = 0
                        /\ queries'[t] = 1]_vars
    /\ [][\A t \in Tasks :
            (ActionReturns(t) /\ HasStateCommand /\ pc[t] = "notify") =>
                /\ queries'[t] = 1
                /\ committed'[t] = 1
                /\ attr_is_on' = StateFrom(result[t])]_vars

\* A turn_on whose command succeeded ran its own state command, which says
\* the switch is off.
C7_Witness ==
    \E t \in Tasks :
        /\ kind[t] = "on" /\ pc[t] = "notify" /\ exit_code[t] = 0
        /\ queries[t] = 1 /\ attr_is_on = "False"

\* The state command failed: a non-zero exit code or a timeout.
QueryFailed(r) == r.exitCode # 0 \/ r.timedOut

\* C8: after a refresh whose state command failed (non-zero exit code or
\* timeout), with or without a value template, _attr_is_on is None.
C8_FailedQueryUnknown ==
    \A t \in Tasks :
        (pc[t] = "notify" /\ QueryFailed(result[t])) => attr_is_on = "None"

\* C9: with a state command and no value template, _attr_is_on after a
\* refresh is True if the exit code is 0 and False for every other exit
\* code, whatever the command printed.
C9_ExitCodeMode ==
    \A t \in Tasks :
        (pc[t] = "notify" /\ value_template = "None") =>
            attr_is_on = IF result[t].exitCode = 0 THEN "True" ELSE "False"

\* Without a template the command printed "false" and exited 0: the switch
\* is on.
C9_Witness ==
    /\ value_template = "None"
    /\ attr_is_on = "True"
    /\ \E t \in Tasks :
        /\ pc[t] = "notify"
        /\ result[t].exitCode = 0
        /\ result[t].stdout = <<"f", "a", "l", "s", "e">>

\* s is "true" in some mix of upper and lower case.
SpellsTrue(s) ==
    /\ Len(s) = 4
    /\ s[1] \in {"t", "T"} /\ s[2] \in {"r", "R"}
    /\ s[3] \in {"u", "U"} /\ s[4] \in {"e", "E"}

\* The string the refresh of coroutine t decided on.
ChosenBy(t) == chosen(payload_of(result[t]), value_of(result[t]))

\* C10: after a refresh that decided on a non-empty string, _attr_is_on is
\* True if that string is "true" in any letter case and False for every
\* other string; it is never None.
C10_TrueIgnoringCase ==
    \A t \in Tasks :
        (pc[t] = "notify" /\ ChosenBy(t) # <<>>) =>
            attr_is_on = IF SpellsTrue(ChosenBy(t)) THEN "True" ELSE "False"

\* A refresh decided on "TRUE" and the switch is on.
C10_Witness ==
    /\ attr_is_on = "True"
    /\ \E t \in Tasks :
        /\ pc[t] = "notify"
        /\ ChosenBy(t) = <<"T", "R", "U", "E">>

\* The payload and the rendered value of the refresh of coroutine t.
PayloadBy(t) == payload_of(result[t])

ValueBy(t) == value_of(result[t])

\* The state a string stands for: True for "true" in any letter case.
StateOfString(s) == IF SpellsTrue(s) THEN "True" ELSE "False"

\* C11: after a refresh with a value template that rendered a non-empty
\* value, _attr_is_on is decided by that value alone, whatever the payload;
\* when the template rendered nothing (an empty value or none), it is
\* decided by the payload.
C11_ValuePreferred ==
    \A t \in Tasks :
        (pc[t] = "notify" /\ value_template # "None") =>
            IF ValueBy(t) # None /\ ValueBy(t).v # <<>>
            THEN attr_is_on = StateOfString(ValueBy(t).v)
            ELSE PayloadBy(t) # <<>> => attr_is_on = StateOfString(PayloadBy(t))

\* The command printed "true", the template rendered "False": the switch
\* is off.
C11_Witness ==
    /\ attr_is_on = "False"
    /\ \E t \in Tasks :
        /\ pc[t] = "notify"
        /\ PayloadBy(t) = <<"t", "r", "u", "e">>
        /\ ValueBy(t) = PyStr(<<"F", "a", "l", "s", "e">>)

\* What the state command itself gave to the refresh of coroutine t,
\* before it is turned into a string.
RawBy(t) == query_state(result[t])

Present(x) == x # None /\ x.t = "str" /\ x.v # <<>>

\* C12: after a refresh with a value template, _attr_is_on is None exactly
\* when neither the command's output nor the rendered value is present and
\* non-empty; a command without output and without a usable value leaves
\* None, not False.
C12_UnknownIffNothing ==
    \A t \in Tasks :
        (pc[t] = "notify" /\ value_template # "None") =>
            (attr_is_on = "None" <=> ~Present(RawBy(t)) /\ ~Present(ValueBy(t)))

\* C13: when the executor job of the action command raises, the exception
\* leaves async_turn_on / async_turn_off: _attr_is_on is unchanged, nothing
\* is scheduled or written to the host, and no _update_entity_state is
\* attempted. A command that returns any exit code, or a state command that
\* returns any result (failure and timeout included), never raises.
C13_ActionFaultPropagates ==
    [][\A t \in Tasks :
        /\ (pc[t] = "switch" /\ pc'[t] # "switch" /\ exit_code'[t] = NoCode) =>
              /\ pc'[t] = "raised"
              /\ UNCHANGED <<attr_is_on, process_updates, attempts, warned,
                             queries, scheduled, committed>>
        /\ CommandReturned(t) => pc'[t] \in {"query", "done"}
        /\ (pc[t] = "query" /\ result'[t] # NoResult) => pc'[t] = "notify"
      ]_vars

\* A turn_on whose command could not be run, on a switch that was on.
C13_Witness ==
    /\ attr_is_on = "True"
    /\ \E t \in Tasks :
        /\ pc[t] = "raised"
        /\ kind[t] = "on"
        /\ exit_code[t] = NoCode
        /\ attempts[t] = 0

\* What a refresh with the result held by coroutine t writes when it is
\* run on the current state.
RefreshedAgain(t) == interpret(payload_of(result[t]), value_of(result[t]))

NoPollRegistered == added => ~tick_registered

FlipsWithoutQuery ==
    \A t \in Tasks : (IsAction(t) /\ exit_code[t] = 0) => scheduled[t] = 1

RefreshIsNoOp ==
    \A t \in Tasks : attempts[t] = 1 => queries[t] = 0 /\ warned[t] = 0

PollRegistered == added => tick_registered

VerifiesByQuery ==
    /\ \A t \in Tasks : scheduled[t] = 0
    /\ \A t \in Tasks : attempts[t] = 1 => queries[t] = 1 \/ warned[t] = 1

\* C15: assumed_state is True exactly when the device behaves
\* optimistically, for a command_state that is None, empty or non-empty:
\* when it is True, turn_on / turn_off write the state without a state
\* command, a refresh does nothing and no tick is registered; when it is
\* False, the tick is registered and the state is only written from the
\* state command.
C15_AssumedIffOptimistic ==
    IF assumed_state
    THEN NoPollRegistered /\ FlipsWithoutQuery /\ RefreshIsNoOp
    ELSE PollRegistered /\ VerifiesByQuery

\* The slot a new coroutine would take.
FirstFree(t) == Free(t) /\ \A u \in Tasks : u < t => ~Free(u)

\* C16: the action command is not gated by the poll lock. turn_on and
\* turn_off can be called and their command can return whether or not a
\* refresh holds the lock with its state command in flight; a call that got
\* past its command has run it, also when its own refresh attempt was then
\* dropped, and only that attempt, made after the command, meets the guard.
C16_ActionNotGated ==
    \A t \in Tasks :
        /\ (added /\ FirstFree(t)) => ENABLED TurnOn(t) /\ ENABLED TurnOff(t)
        /\ pc[t] = "switch" =>
              /\ ENABLED SwitchReturn(t)
              /\ exit_code[t] = NoCode /\ attempts[t] = 0 /\ warned[t] = 0
        /\ (IsAction(t) /\ pc[t] \in {"query", "notify", "done"}) =>
              exit_code[t] \in ExitCodes /\ attempts[t] = 1

\* A tick's state command is in flight and holds the lock; turn_on has run
\* its command to exit code 0 meanwhile, and its refresh attempt was dropped.
C16_Witness ==
    \E t, u \in Tasks :
        /\ kind[u] = "tick" /\ pc[u] = "query" /\ LockHeld
        /\ kind[t] = "on" /\ pc[t] = "done"
        /\ exit_code[t] = 0 /\ warned[t] = 1

\* C17: a refresh whose state command returned writes the state to the
\* host exactly once, after _attr_is_on has been written and also when the
\* value written is the one that was there; a dropped attempt and a refresh
\* without a state command write nothing to the host.
C17_NotifiedOnce ==
    \A t \in Tasks :
        /\ committed[t] <= 1
        /\ committed[t] = 1 <=> (pc[t] = "done" /\ queries[t] = 1)
        /\ pc[t] = "notify" => queries[t] = 1 /\ attr_is_on = StateFrom(result[t])
        /\ warned[t] = 1 => queries[t] = 0
        /\ ~HasStateCommand => queries[t] = 0

\* The only coroutine so far, a tick, has read "false" on a switch that was
\* off, and has written the state to the host.
C17_Witness ==
    \E t \in Tasks :
        /\ kind[t] = "tick" /\ pc[t] = "done" /\ committed[t] = 1
        /\ attr_is_on = "False"
        /\ \A u \in Tasks \ {t} : kind[u] = "none"

\* The state command of coroutine t returns in this step, t holding the
\* poll lock before and after.
HolderQueryReturns(t) ==
    /\ pc[t] = "query" /\ pc'[t] = "notify"
    /\ LockHeld /\ LockHeld'
    /\ queries[t] = 1

\* C18: with a non-empty state command, _attr_is_on is written only in the
\* step in which the state command of the coroutine holding the poll lock
\* returns: not by a call of turn_on / turn_off, not when the action command
\* returns, not when the state command is submitted. While a state command
\* is in flight _attr_is_on keeps the value it had, and the None written
\* before the new value is never there at a suspension point.
C18_WrittenByHolderOnly ==
    /\ [][(HasStateCommand /\ attr_is_on' # attr_is_on) =>
              \E t \in Tasks : HolderQueryReturns(t)]_vars
    /\ [][\A t \in Tasks :
              (HasStateCommand /\ pc[t] \in {"switch", "queued", "query"}
                 /\ pc'[t] \in {"query", "done", "raised"}) =>
                  attr_is_on' = attr_is_on]_vars
    /\ [](HasStateCommand => attr_is_on # "None")

\* turn_off has run its command with exit code 0 and the state command it
\* then ran has said "true": the switch is on, by the state command alone.
C18_Witness ==
    /\ HasStateCommand
    /\ attr_is_on = "True"
    /\ \E t \in Tasks :
        /\ kind[t] = "off" /\ exit_code[t] = 0 /\ pc[t] = "notify"
        /\ \A u \in Tasks \ {t} : kind[u] = "none"

\* C19: without a state command, calls of turn_on / turn_off overlap and
\* _attr_is_on follows the order in which their commands complete, not the
\* order of the calls: a command that returns 0 writes the target of its
\* call (True for turn_on, False for turn_off) over whatever is there, a
\* command that fails or raises writes nothing, and nothing else writes.
\* Before the first call, _attr_is_on is the False of __init__.
C19_LastCompletedWins ==
    /\ [][\A t \in Tasks :
            (~HasStateCommand /\ CommandReturned(t)) =>
                attr_is_on' = IF exit_code'[t] # 0 THEN attr_is_on
                              ELSE IF kind[t] = "on" THEN "True" ELSE "False"
         ]_vars
    /\ [][(~HasStateCommand /\ attr_is_on' # attr_is_on) =>
              \E t \in Tasks : CommandReturned(t) /\ exit_code'[t] = 0]_vars
    /\ []((\A t \in Tasks : kind[t] = "none") => attr_is_on = "False")

\* turn_on was called first and turn_off second, while the on command was
\* still running; both commands returned 0, the off command first: the
\* switch is on.
C19_Witness ==
    /\ ~HasStateCommand
    /\ kind[1] = "on" /\ kind[2] = "off"
    /\ \A t \in {1, 2} : pc[t] = "done" /\ exit_code[t] = 0
    /\ attr_is_on = "True"

====
